---- MODULE Spec2Model ----
(***************************************************************************)
(* A model of the PDF question-answering back end: the VectorStore of      *)
(* backend1/app/vector_store.py (an in-memory similarity index with three  *)
(* parallel metadata lists and two persisted artifacts).                   *)
(*                                                                         *)
(* Embeddings are one-dimensional integer points, the metric is the        *)
(* squared Euclidean distance of IndexFlatL2.  Python positions are kept   *)
(* 0-based, as in the code (-1 is the "no match" marker of the index);     *)
(* the element at Python position i of a list s is s[i + 1].               *)
(***************************************************************************)
EXTENDS Integers, Sequences, FiniteSets, TLC

\* ------------------------------------------------------------------ bounds
\* Largest number of vectors, and of metadata entries, the index may hold,
\* and so also the largest batch one add_vectors call may carry.
MaxN == 2

\* ------------------------------------------------------------- input sets
None == "None"
\* dimension: int = 384, the width of the index (line 13).
Dimension == 384
\* vectors.shape[1] of a batch: the width of the index, or another one.
Dims == {Dimension, Dimension * 2}
Vecs == {0, 2}
Queries == {0, 1, 2}
Ks == {1, 2}
Names == {"A.pdf", "B.pdf"}
\* The (text, page, pdf_name) tuples an ingestion produces.
Chunks == {<<"t1", 1, "A.pdf">>, <<"t2", 2, "B.pdf">>}
\* A malformed element of the texts argument: a tuple that is no 3-tuple.
BadChunks == {<<"t3", 1>>}

SeqsUpTo(S, n) == UNION {[1..m -> S] : m \in 0..n}

\* A sequence written as a function, computed once instead of at every use.
AsTuple(f) == f \o <<>>

\* What can go wrong inside _save_index, by the place where it goes wrong.
SaveFailures == {"none", "index_open", "index_write", "texts_open", "texts_dump"}
\* What can go wrong while _load_existing_index reads the two artifacts.
ReadFailures == {"none", "index", "texts"}

VARIABLES
    index,          \* self.index: the vectors of the faiss index, in insertion order
    texts,          \* self.texts
    page_numbers,   \* self.page_numbers
    pdf_names,      \* self.pdf_names
    indexFile,      \* the artifact at index_path
    textsFile,      \* the artifact at texts_path
    op,             \* the operation that ran last
    arg,            \* the arguments of that call, as far as the properties read them
    outcome,        \* what its caller saw: "ok" (a normal return) or the exception raised
    log,            \* what it wrote to the error log ("" when nothing)
    res,            \* what it returned (search), else <<>>
    pc,             \* position of the writer in add_vectors / reset ("idle": in neither)
    pend,           \* the chunks argument of the add_vectors call in progress
    run             \* what the last call of the question-answering pipeline did on
                    \* its way: the values of its local variables; for /upload_pdfs
                    \* the local variables of each request in progress (<<>> otherwise)

mem == <<index, texts, page_numbers, pdf_names>>
disk == <<indexFile, textsFile>>
hist == <<op, arg, outcome, log, res>>
vars == <<index, texts, page_numbers, pdf_names, indexFile, textsFile,
          op, arg, outcome, log, res, pc, pend, run>>

\* ------------------------------------------------------ persisted artifacts
Absent == [st |-> "absent", vecs |-> <<>>, texts |-> <<>>, page_numbers |-> <<>>,
           pdf_names |-> <<>>]
\* A file that exists but cannot be parsed (a write that stopped half way).
Corrupt == [st |-> "corrupt", vecs |-> <<>>, texts |-> <<>>, page_numbers |-> <<>>,
            pdf_names |-> <<>>]
IndexArtifact(vs) == [st |-> "ok", vecs |-> vs, texts |-> <<>>, page_numbers |-> <<>>,
                      pdf_names |-> <<>>]
TextsArtifact(t, p, n) == [st |-> "ok", vecs |-> <<>>, texts |-> t, page_numbers |-> p,
                           pdf_names |-> n]
Exists(file) == file.st # "absent"

NoArg == [nv |-> 0, d |-> 0, nc |-> 0, first3 |-> FALSE, k |-> 0, pdf_name |-> None]

\* ---------------------------------------------------------------- __init__
\* VectorStore(index_path) on a path with no artifact: lines 17-20, and
\* _load_existing_index finds nothing to load.
Init ==
    /\ index = <<>>
    /\ texts = <<>>
    /\ page_numbers = <<>>
    /\ pdf_names = <<>>
    /\ indexFile = Absent
    /\ textsFile = Absent
    /\ op = "__init__"
    /\ arg = NoArg
    /\ outcome = "ok"
    /\ log = ""
    /\ res = <<>>
    /\ pc = "idle"
    /\ pend = <<>>
    /\ run = <<>>

\* No store exists when its constructor raised.
Constructed == ~(op = "__init__" /\ outcome # "ok")

\* ------------------------------------------------------------------- reset
\* reset() as it would be with line 99 left out.
ResetMemoryKeepNames ==
    /\ index' = <<>>
    /\ texts' = <<>>
    /\ page_numbers' = <<>>
    /\ pdf_names' = pdf_names

\* Lines 96-99: a fresh index and three fresh lists.
ResetMemory ==
    /\ index' = <<>>
    /\ texts' = <<>>
    /\ page_numbers' = <<>>
    /\ pdf_names' = <<>>

\* reset() as it would be with lines 103-104 left out.
ResetFilesKeepTexts(iF, tF, denyIndex, denyTexts) ==
    IF Exists(iF) /\ denyIndex
    THEN [indexFile |-> iF, textsFile |-> tF, outcome |-> "OSError"]
    ELSE [indexFile |-> Absent, textsFile |-> tF, outcome |-> "ok"]

\* Lines 101-104: remove each artifact that exists.  os.remove raises OSError
\* when the filesystem denies the deletion, and nothing in reset catches it.
ResetFiles(iF, tF, denyIndex, denyTexts) ==
    IF Exists(iF) /\ denyIndex
    THEN [indexFile |-> iF, textsFile |-> tF, outcome |-> "OSError"]
    ELSE IF Exists(tF) /\ denyTexts
         THEN [indexFile |-> Absent, textsFile |-> tF, outcome |-> "OSError"]
         ELSE [indexFile |-> Absent, textsFile |-> Absent, outcome |-> "ok"]

\* reset(), lines 94-106.
Reset(denyIndex, denyTexts) ==
    /\ Constructed
    /\ pc = "idle"
    /\ ResetMemory
    /\ LET r == ResetFiles(indexFile, textsFile, denyIndex, denyTexts)
       IN /\ indexFile' = r.indexFile
          /\ textsFile' = r.textsFile
          /\ outcome' = r.outcome
    /\ op' = "reset"
    /\ arg' = NoArg
    /\ log' = ""
    /\ res' = <<>>
    /\ UNCHANGED <<pc, pend, run>>

\* ------------------------------------------------------------- _save_index
\* Lines 57-69: write the index file, then open the metadata file for writing
\* and dump into it; any exception is caught and logged, nothing is raised.
\* An open that fails leaves the file as it was, a write that fails after the
\* open leaves a truncated file that does not parse.
SaveIndex(idx, t, p, n, iF, tF, fail) ==
    CASE fail = "none" ->
           [indexFile |-> IndexArtifact(idx), textsFile |-> TextsArtifact(t, p, n),
            log |-> ""]
      [] fail = "index_open" ->
           [indexFile |-> iF, textsFile |-> tF, log |-> "Error saving index"]
      [] fail = "index_write" ->
           [indexFile |-> Corrupt, textsFile |-> tF, log |-> "Error saving index"]
      [] fail = "texts_open" ->
           [indexFile |-> IndexArtifact(idx), textsFile |-> tF,
            log |-> "Error saving index"]
      [] fail = "texts_dump" ->
           [indexFile |-> IndexArtifact(idx), textsFile |-> Corrupt,
            log |-> "Error saving index"]

\* ------------------------------------------------------------- add_vectors
VecBatches == SeqsUpTo(Vecs, MaxN)
ChunkBatches == SeqsUpTo(Chunks \cup BadChunks, MaxN)

\* Line 45: texts[0] is a tuple of three elements.
FirstIsTriple(chunks) == Len(chunks[1]) = 3

\* Line 50: zip(*texts) yields as many tuples as the shortest element is long,
\* and the assignment to three names needs exactly three.
RECURSIVE ZipLen(_)
ZipLen(chunks) ==
    IF Len(chunks) = 1 THEN Len(chunks[1])
    ELSE LET r == ZipLen(Tail(chunks))
         IN IF Len(chunks[1]) < r THEN Len(chunks[1]) ELSE r

Column(chunks, c) == [i \in 1..Len(chunks) |-> chunks[i][c]]

AddArg(vecs, d, chunks) ==
    [NoArg EXCEPT !.nv = Len(vecs), !.d = d, !.nc = Len(chunks),
                  !.first3 = (Len(chunks) > 0 /\ FirstIsTriple(chunks))]

\* add_vectors(vectors, texts), lines 39-55: vecs are the rows of vectors and d
\* is their width, fail is where _save_index fails.
AddVectors(vecs, d, chunks, fail) ==
    /\ Constructed
    /\ pc = "idle"
    /\ Len(index) + Len(vecs) <= MaxN
    /\ Len(texts) + Len(chunks) <= MaxN
    /\ op' = "add_vectors"
    /\ arg' = AddArg(vecs, d, chunks)
    /\ res' = <<>>
    /\ UNCHANGED <<pc, pend, run>>
    /\ IF Len(vecs) = 0
       THEN \* lines 41-43
            /\ log' = "No vectors to add"
            /\ outcome' = "ok"
            /\ UNCHANGED <<mem, disk>>
       ELSE IF Len(chunks) = 0
       THEN \* line 45: texts[0] of an empty list
            /\ log' = ""
            /\ outcome' = "IndexError"
            /\ UNCHANGED <<mem, disk>>
       ELSE IF ~FirstIsTriple(chunks)
       THEN \* lines 45-47
            /\ log' = "Invalid texts format"
            /\ outcome' = "ok"
            /\ UNCHANGED <<mem, disk>>
       ELSE IF d # Dimension
       THEN \* line 49: index.add asserts the width of the index
            /\ log' = ""
            /\ outcome' = "AssertionError"
            /\ UNCHANGED <<mem, disk>>
       ELSE IF ZipLen(chunks) # 3
       THEN \* line 49 has run when line 50 raises
            /\ index' = index \o vecs
            /\ log' = ""
            /\ outcome' = "ValueError"
            /\ UNCHANGED <<texts, page_numbers, pdf_names, disk>>
       ELSE \* lines 49-55
            LET idx == index \o vecs
                t == texts \o Column(chunks, 1)
                p == page_numbers \o Column(chunks, 2)
                n == pdf_names \o Column(chunks, 3)
                s == SaveIndex(idx, t, p, n, indexFile, textsFile, fail)
            IN /\ index' = idx
               /\ texts' = t
               /\ page_numbers' = p
               /\ pdf_names' = n
               /\ indexFile' = s.indexFile
               /\ textsFile' = s.textsFile
               /\ log' = s.log
               /\ outcome' = "ok"

\* ------------------------------------------------------------------ search
\* IndexFlatL2: the squared Euclidean distance.
Dist(q, v) == (q - v) * (q - v)

\* Line 73, self.index.search(query_vector, n): the n nearest vectors by
\* ascending distance (equal distances by ascending position), as (position,
\* distance) pairs, filled up with position -1 when the index holds fewer
\* (line 77 skips those, their distance is never read).
FaissSearch(vecs, q, n) ==
    LET N == Len(vecs)
        Before(j, i) == \/ Dist(q, vecs[j + 1]) < Dist(q, vecs[i + 1])
                        \/ (Dist(q, vecs[j + 1]) = Dist(q, vecs[i + 1]) /\ j < i)
        ranked == AsTuple([r \in 1..N |->
                     CHOOSE i \in 0..(N - 1) :
                        Cardinality({j \in 0..(N - 1) : Before(j, i)}) = r - 1])
    IN [r \in 1..n |->
          IF r <= N THEN [idx |-> ranked[r], d |-> Dist(q, vecs[ranked[r] + 1])]
          ELSE [idx |-> -1, d |-> -1]]

\* Line 77: the positions that are skipped.
SkipPosition(idx, t) == idx = -1 \/ idx >= Len(t)

\* search() as it would be with lines 81-82 left out.
FilteredOutNever(idx, names, pdf_name) == FALSE

\* Line 81: the candidates the PDF filter drops.
FilteredOut(idx, names, pdf_name) == pdf_name # None /\ names[idx + 1] # pdf_name

\* sorted(results, key=lambda x: x[1]): ascending by distance, stable.
RECURSIVE SortByDistance(_)
SortByDistance(results) ==
    IF results = <<>> THEN <<>>
    ELSE LET n == Len(results)
             x == results[n]
             s == SortByDistance(SubSeq(results, 1, n - 1))
             \* x goes behind every element whose distance is not larger
             m == Cardinality({i \in 1..Len(s) : s[i][2] <= x[2]})
         IN SubSeq(s, 1, m) \o <<x>> \o SubSeq(s, m + 1, Len(s))

\* search() as it would be with the [:k] of line 92 left out.
TopKUncut(results, k) == SortByDistance(results)

\* Line 92: sorted(...)[:k].
TopK(results, k) ==
    LET s == SortByDistance(results)
    IN SubSeq(s, 1, IF Len(s) < k THEN Len(s) ELSE k)

\* The candidates of line 73 that pass line 77.
Candidates(vecs, t, q, k) ==
    LET NotSkipped(c) == ~SkipPosition(c.idx, t)
    IN SelectSeq(FaissSearch(vecs, q, k * 3), NotSkipped)

\* Lines 81 and 87-88 index page_numbers and pdf_names by a position that line
\* 77 compared with len(self.texts) only: IndexError when a list is shorter.
SearchRaises(cands, p, n, pdf_name) ==
    \E i \in 1..Len(cands) :
       \/ pdf_name # None /\ cands[i].idx >= Len(n)
       \/ pdf_name = None /\ (cands[i].idx >= Len(p) \/ cands[i].idx >= Len(n))
       \/ /\ pdf_name # None
          /\ cands[i].idx < Len(n)
          /\ ~FilteredOut(cands[i].idx, n, pdf_name)
          /\ cands[i].idx >= Len(p)

\* Lines 80-92 on the candidates: the sequence search returns.
SearchResults(cands, t, p, n, k, pdf_name) ==
    LET Kept(c) == ~FilteredOut(c.idx, n, pdf_name)
        kept == SelectSeq(cands, Kept)
        results == AsTuple([i \in 1..Len(kept) |->
                      <<t[kept[i].idx + 1], kept[i].d, p[kept[i].idx + 1],
                        n[kept[i].idx + 1]>>])
    IN TopK(results, k)

SearchArg(k, pdf_name) == [NoArg EXCEPT !.k = k, !.pdf_name = pdf_name]

\* search(query_vector, k, pdf_name), lines 71-92.  It takes no lock and can
\* run wherever the writer stands.
Search(q, k, pdf_name) ==
    /\ Constructed
    /\ op' = "search"
    /\ arg' = SearchArg(k, pdf_name)
    /\ LET cands == Candidates(index, texts, q, k)
       IN IF SearchRaises(cands, page_numbers, pdf_names, pdf_name)
          THEN /\ res' = <<>>
               /\ outcome' = "IndexError"
          ELSE /\ res' = SearchResults(cands, texts, page_numbers, pdf_names, k, pdf_name)
               /\ outcome' = "ok"
    /\ log' = ""
    /\ UNCHANGED <<mem, disk, pc, pend, run>>

\* ------------------------------------------- __init__ on an existing path
\* What _load_existing_index leaves, lines 24-37, after lines 17-20 made the
\* store empty: readFail is the artifact whose read fails although it parses.
LoadExistingIndex(iF, tF, readFail, denyIndex, denyTexts) ==
    IF ~(Exists(iF) /\ Exists(tF))
    THEN \* line 26: nothing is loaded
         [index |-> <<>>, texts |-> <<>>, page_numbers |-> <<>>, pdf_names |-> <<>>,
          indexFile |-> iF, textsFile |-> tF, outcome |-> "ok", log |-> ""]
    ELSE IF iF.st = "corrupt" \/ readFail = "index"
            \/ tF.st = "corrupt" \/ readFail = "texts"
    THEN \* lines 35-37: the error is logged and reset() runs
         LET r == ResetFiles(iF, tF, denyIndex, denyTexts)
         IN [index |-> <<>>, texts |-> <<>>, page_numbers |-> <<>>, pdf_names |-> <<>>,
             indexFile |-> r.indexFile, textsFile |-> r.textsFile,
             outcome |-> r.outcome, log |-> "Error loading index"]
    ELSE \* lines 28-34
         [index |-> iF.vecs, texts |-> tF.texts, page_numbers |-> tF.page_numbers,
          pdf_names |-> tF.pdf_names, indexFile |-> iF, textsFile |-> tF,
          outcome |-> "ok", log |-> ""]

\* The service starts again: VectorStore(index_path) on what is on disk.
Construct(readFail, denyIndex, denyTexts) ==
    /\ pc = "idle"
    /\ LET s == LoadExistingIndex(indexFile, textsFile, readFail, denyIndex, denyTexts)
       IN /\ index' = s.index
          /\ texts' = s.texts
          /\ page_numbers' = s.page_numbers
          /\ pdf_names' = s.pdf_names
          /\ indexFile' = s.indexFile
          /\ textsFile' = s.textsFile
          /\ outcome' = s.outcome
          /\ log' = s.log
    /\ op' = "__init__"
    /\ arg' = NoArg
    /\ res' = <<>>
    /\ UNCHANGED <<pc, pend, run>>

\* ----------------------------------------------------------- specification
\* line 55 is reached, so _save_index runs, only on a batch that passes the
\* checks of lines 41-50.
ReachesSave(vecs, d, chunks) ==
    /\ Len(vecs) > 0
    /\ d = Dimension
    /\ Len(chunks) > 0
    /\ FirstIsTriple(chunks)
    /\ ZipLen(chunks) = 3

\* The life of the store: calls of add_vectors with any arguments, of reset and
\* of search, restarts of the service, and the failures of the filesystem.
\* Only the number of the vectors and of the chunks matters here: the vectors
\* are all the point 0, and so is the query, and the well-formed chunks are
\* all the same one.
CountBatches == SeqsUpTo({0}, MaxN)
CountChunkBatches == SeqsUpTo({<<"t1", 1, "A.pdf">>} \cup BadChunks, MaxN)

DoAddVectors ==
    \E vecs \in CountBatches, d \in Dims, chunks \in CountChunkBatches :
        \E fail \in (IF ReachesSave(vecs, d, chunks) THEN SaveFailures ELSE {"none"}) :
            AddVectors(vecs, d, chunks, fail)
DoReset == \E denyIndex \in BOOLEAN, denyTexts \in BOOLEAN : Reset(denyIndex, denyTexts)
DoSearch == \E k \in Ks, pdf_name \in Names \cup {None} : Search(0, k, pdf_name)
DoConstruct == \E readFail \in ReadFailures, denyIndex \in BOOLEAN, denyTexts \in BOOLEAN :
                   Construct(readFail, denyIndex, denyTexts)

Next == DoAddVectors \/ DoReset \/ DoSearch \/ DoConstruct

Spec == Init /\ [][Next]_vars

\* Searching: the store is filled by add_vectors with vectors at different
\* points and emptied by reset, on a filesystem that does not fail.
FillStore == \E vecs \in VecBatches, chunks \in ChunkBatches :
                 AddVectors(vecs, Dimension, chunks, "none")
EmptyStore == Reset(FALSE, FALSE)
Query == \E q \in Queries, k \in Ks, pdf_name \in Names \cup {None} :
             Search(q, k, pdf_name)

NextSearch == FillStore \/ EmptyStore \/ Query

SpecSearch == Init /\ [][NextSearch]_vars

\* ------------------------------------------- the calls, statement by statement
\* add_vectors and reset as a thread runs them, one statement a step, with
\* search calls of other threads in between: the store has no lock.  The
\* batches are well formed, with as many vectors as chunks and of the width of
\* the index, and the filesystem does not fail.
AddIndexAdd(vecs, chunks) ==
    /\ pc = "idle"
    /\ ReachesSave(vecs, Dimension, chunks)
    /\ Len(vecs) = Len(chunks)
    /\ Len(index) + Len(vecs) <= MaxN
    /\ index' = index \o vecs                    \* line 49
    /\ pc' = "add_51"
    /\ pend' = chunks
    /\ op' = "add_vectors"
    /\ arg' = AddArg(vecs, Dimension, chunks)
    /\ outcome' = "ok"
    /\ log' = ""
    /\ res' = <<>>
    /\ UNCHANGED <<texts, page_numbers, pdf_names, disk, run>>

AddExtendTexts ==
    /\ pc = "add_51"
    /\ texts' = texts \o Column(pend, 1)         \* line 51
    /\ pc' = "add_52"
    /\ op' = "add_vectors"
    /\ res' = <<>>
    /\ UNCHANGED <<index, page_numbers, pdf_names, disk, arg, outcome, log, pend, run>>

AddExtendPages ==
    /\ pc = "add_52"
    /\ page_numbers' = page_numbers \o Column(pend, 2)   \* line 52
    /\ pc' = "add_53"
    /\ op' = "add_vectors"
    /\ res' = <<>>
    /\ UNCHANGED <<index, texts, pdf_names, disk, arg, outcome, log, pend, run>>

AddExtendNames ==
    /\ pc = "add_53"
    /\ pdf_names' = pdf_names \o Column(pend, 3)  \* line 53
    /\ pc' = "add_55"
    /\ op' = "add_vectors"
    /\ res' = <<>>
    /\ UNCHANGED <<index, texts, page_numbers, disk, arg, outcome, log, pend, run>>

AddSave ==
    /\ pc = "add_55"
    /\ LET s == SaveIndex(index, texts, page_numbers, pdf_names, indexFile, textsFile,
                          "none")                \* line 55
       IN /\ indexFile' = s.indexFile
          /\ textsFile' = s.textsFile
    /\ pc' = "idle"
    /\ pend' = <<>>
    /\ op' = "add_vectors"
    /\ res' = <<>>
    /\ UNCHANGED <<mem, arg, outcome, log, run>>

ResetIndex ==
    /\ pc = "idle"
    /\ index' = <<>>                             \* line 96
    /\ pc' = "reset_97"
    /\ op' = "reset"
    /\ arg' = NoArg
    /\ outcome' = "ok"
    /\ log' = ""
    /\ res' = <<>>
    /\ UNCHANGED <<texts, page_numbers, pdf_names, disk, pend, run>>

ResetTexts ==
    /\ pc = "reset_97"
    /\ texts' = <<>>                             \* line 97
    /\ pc' = "reset_98"
    /\ op' = "reset"
    /\ res' = <<>>
    /\ UNCHANGED <<index, page_numbers, pdf_names, disk, arg, outcome, log, pend, run>>

ResetPages ==
    /\ pc = "reset_98"
    /\ page_numbers' = <<>>                      \* line 98
    /\ pc' = "reset_99"
    /\ op' = "reset"
    /\ res' = <<>>
    /\ UNCHANGED <<index, texts, pdf_names, disk, arg, outcome, log, pend, run>>

ResetNames ==
    /\ pc = "reset_99"
    /\ pdf_names' = <<>>                         \* line 99
    /\ pc' = "reset_101"
    /\ op' = "reset"
    /\ res' = <<>>
    /\ UNCHANGED <<index, texts, page_numbers, disk, arg, outcome, log, pend, run>>

ResetRemove ==
    /\ pc = "reset_101"
    /\ LET r == ResetFiles(indexFile, textsFile, FALSE, FALSE)   \* lines 101-104
       IN /\ indexFile' = r.indexFile
          /\ textsFile' = r.textsFile
    /\ pc' = "idle"
    /\ op' = "reset"
    /\ res' = <<>>
    /\ UNCHANGED <<mem, arg, outcome, log, pend, run>>

AddStart == \E vecs \in VecBatches, chunks \in ChunkBatches : AddIndexAdd(vecs, chunks)

NextConc ==
    \/ AddStart \/ AddExtendTexts \/ AddExtendPages \/ AddExtendNames \/ AddSave
    \/ ResetIndex \/ ResetTexts \/ ResetPages \/ ResetNames \/ ResetRemove
    \/ Query

SpecConc == Init /\ [][NextConc]_vars

\* ======================================================= the RAG pipeline
\* backend1/app/rag_pipeline.py.  A Python string is the sequence of its
\* characters, so that lower-casing, substring tests, concatenation and slices
\* are computed on the characters as the code computes them.
UpperCase ==
    <<"A", "B", "C", "D", "E", "F", "G", "H", "I", "J", "K", "L", "M",
      "N", "O", "P", "Q", "R", "S", "T", "U", "V", "W", "X", "Y", "Z">>
LowerCase ==
    <<"a", "b", "c", "d", "e", "f", "g", "h", "i", "j", "k", "l", "m",
      "n", "o", "p", "q", "r", "s", "t", "u", "v", "w", "x", "y", "z">>

\* str.lower()
LowerOf == [c \in {UpperCase[j] : j \in 1..26} |->
               LowerCase[CHOOSE j \in 1..26 : UpperCase[j] = c]]
Lower(s) ==
    AsTuple([i \in 1..Len(s) |-> IF s[i] \in DOMAIN LowerOf THEN LowerOf[s[i]] ELSE s[i]])

\* word in s, for strings
Contains(s, word) ==
    \E i \in 0..(Len(s) - Len(word)) : \A j \in 1..Len(word) : s[i + j] = word[j]

\* any(word in s for word in words)
ContainsAny(s, words) == \E i \in 1..Len(words) : Contains(s, words[i])

\* line 79: ['what is', 'define', 'definition']
DefinitionWords ==
    <<<<"w", "h", "a", "t", " ", "i", "s">>,
      <<"d", "e", "f", "i", "n", "e">>,
      <<"d", "e", "f", "i", "n", "i", "t", "i", "o", "n">>>>
\* line 86: ['formula', 'equation', 'calculate', 'derive']
TechnicalWords ==
    <<<<"f", "o", "r", "m", "u", "l", "a">>,
      <<"e", "q", "u", "a", "t", "i", "o", "n">>,
      <<"c", "a", "l", "c", "u", "l", "a", "t", "e">>,
      <<"d", "e", "r", "i", "v", "e">>>>
\* line 93: ['compare', 'difference', 'similar']
ComparisonWords ==
    <<<<"c", "o", "m", "p", "a", "r", "e">>,
      <<"d", "i", "f", "f", "e", "r", "e", "n", "c", "e">>,
      <<"s", "i", "m", "i", "l", "a", "r">>>>

\* "Explain: "
PrefixExplain ==
    <<"E", "x", "p", "l", "a", "i", "n", ":", " ">>
\* "Provide detailed explanation of: "
PrefixDetailed ==
    <<"P", "r", "o", "v", "i", "d", "e", " ", "d", "e", "t", "a", "i", "l", "e", "d", " ",
      "e", "x", "p", "l", "a", "n", "a", "t", "i", "o", "n", " ", "o", "f", ":", " ">>
\* "Mathematical formulation of: "
PrefixMath ==
    <<"M", "a", "t", "h", "e", "m", "a", "t", "i", "c", "a", "l", " ", "f", "o", "r", "m",
      "u", "l", "a", "t", "i", "o", "n", " ", "o", "f", ":", " ">>
\* "Explain the derivation of: "
PrefixDerivation ==
    <<"E", "x", "p", "l", "a", "i", "n", " ", "t", "h", "e", " ", "d", "e", "r", "i", "v",
      "a", "t", "i", "o", "n", " ", "o", "f", ":", " ">>
\* "Key differences and similarities: "
PrefixCompare ==
    <<"K", "e", "y", " ", "d", "i", "f", "f", "e", "r", "e", "n", "c", "e", "s", " ", "a",
      "n", "d", " ", "s", "i", "m", "i", "l", "a", "r", "i", "t", "i", "e", "s", ":", " ">>

\* _generate_query_variations as it would be with "elif" on lines 86 and 93.
GenerateQueryVariationsFirstMatch(query) ==
    LET lower == Lower(query)
    IN <<query>>
       \o (IF ContainsAny(lower, DefinitionWords)
           THEN <<PrefixExplain \o query, PrefixDetailed \o query>>
           ELSE IF ContainsAny(lower, TechnicalWords)
           THEN <<PrefixMath \o query, PrefixDerivation \o query>>
           ELSE IF ContainsAny(lower, ComparisonWords)
           THEN <<PrefixCompare \o query>>
           ELSE <<>>)

\* _generate_query_variations(query), lines 74-96.
GenerateQueryVariations(query) ==
    LET lower == Lower(query)
        v0 == <<query>>                                              \* line 76
        v1 == IF ContainsAny(lower, DefinitionWords)                 \* lines 79-83
              THEN v0 \o <<PrefixExplain \o query, PrefixDetailed \o query>>
              ELSE v0
        v2 == IF ContainsAny(lower, TechnicalWords)                  \* lines 86-90
              THEN v1 \o <<PrefixMath \o query, PrefixDerivation \o query>>
              ELSE v1
        v3 == IF ContainsAny(lower, ComparisonWords)                 \* lines 93-94
              THEN v2 \o <<PrefixCompare \o query>>
              ELSE v2
    IN v3

\* ------------------------------------------------- queries to reformulate
\* Largest number of words in a query.
MaxWords == 3

\* "What is"
WordWhatIs ==
    <<"W", "h", "a", "t", " ", "i", "s">>
\* "undefined"
WordUndefined ==
    <<"u", "n", "d", "e", "f", "i", "n", "e", "d">>
\* "Formula"
WordFormula ==
    <<"F", "o", "r", "m", "u", "l", "a">>
\* "derive"
WordDerive ==
    <<"d", "e", "r", "i", "v", "e">>
\* "dissimilar"
WordDissimilar ==
    <<"d", "i", "s", "s", "i", "m", "i", "l", "a", "r">>
\* "gradient"
WordGradient ==
    <<"g", "r", "a", "d", "i", "e", "n", "t">>

QueryWords ==
    {WordWhatIs, WordUndefined, WordFormula, WordDerive, WordDissimilar, WordGradient}

\* " ".join(words)
RECURSIVE JoinWords(_)
JoinWords(words) ==
    IF words = <<>> THEN <<>>
    ELSE IF Len(words) = 1 THEN words[1]
    ELSE words[1] \o <<" ">> \o JoinWords(Tail(words))

\* The queries of at most MaxWords words, the empty query among them.
QueryTexts == {JoinWords(ws) : ws \in SeqsUpTo(QueryWords, MaxWords)}

\* A call of the pipeline that changes nothing in the store.
PureCall == UNCHANGED <<mem, disk, pc, pend>>

\* The state before a call of a function of the pipeline on a store that holds
\* the vectors vs and the chunks (t, p, n) and has saved them: a holds the
\* arguments of the call to come.
InitCallOn(vs, t, p, n, a) ==
    /\ index = vs
    /\ texts = t
    /\ page_numbers = p
    /\ pdf_names = n
    /\ indexFile = IF vs = <<>> THEN Absent ELSE IndexArtifact(vs)
    /\ textsFile = IF vs = <<>> THEN Absent ELSE TextsArtifact(t, p, n)
    /\ op = "call"
    /\ arg = a
    /\ outcome = "ok"
    /\ log = ""
    /\ res = <<>>
    /\ pc = "idle"
    /\ pend = <<>>
    /\ run = <<>>

\* The same on the empty store.
InitCall(a) == InitCallOn(<<>>, <<>>, <<>>, <<>>, a)

InitVariations == \E q \in QueryTexts : InitCall([query |-> q])

\* variations = self._generate_query_variations(query)
Variations ==
    /\ op = "call"
    /\ op' = "_generate_query_variations"
    /\ res' = GenerateQueryVariations(arg.query)
    /\ UNCHANGED <<arg, outcome, log, run>>
    /\ PureCall

\* The next query.
NextQuery ==
    /\ op = "_generate_query_variations"
    /\ \E q \in QueryTexts : arg' = [query |-> q]
    /\ op' = "call"
    /\ res' = <<>>
    /\ UNCHANGED <<outcome, log, run>>
    /\ PureCall

NextVariations == Variations \/ NextQuery

SpecVariations == InitVariations /\ [][NextVariations]_vars

\* -------------------------------------------------------- texts of values
Digits == <<"0", "1", "2", "3", "4", "5", "6", "7", "8", "9">>

\* str(n) of a natural number, as an f-string formats {page}
RECURSIVE DecimalText(_)
DecimalText(n) ==
    IF n < 10 THEN <<Digits[n + 1]>>
    ELSE DecimalText(n \div 10) \o <<Digits[(n % 10) + 1]>>

\* The characters of a document name, as an f-string formats {name}
NameText(name) ==
    CASE name = "A.pdf" -> <<"A", ".", "p", "d", "f">>
      [] name = "B.pdf" -> <<"B", ".", "p", "d", "f">>

\* sep.join(parts) on strings
RECURSIVE Join(_, _)
Join(sep, parts) ==
    IF parts = <<>> THEN <<>>
    ELSE IF Len(parts) = 1 THEN parts[1]
    ELSE parts[1] \o sep \o Join(sep, Tail(parts))

\* line 116: the keywords of a technical chunk
ContextKeywords ==
    <<<<"f", "o", "r", "m", "u", "l", "a">>,
      <<"e", "q", "u", "a", "t", "i", "o", "n">>,
      <<"t", "h", "e", "o", "r", "e", "m">>,
      <<"p", "r", "o", "o", "f">>>>


\* f"From {name}, page {page}:\n{text}", lines 117 and 119, of a result
\* (text, distance, page, name)
Piece(r) ==
    <<"F", "r", "o", "m", " ">> \o NameText(r[4])
    \o <<",", " ", "p", "a", "g", "e", " ">> \o DecimalText(r[3])
    \o <<":", "\n">> \o r[1]

\* line 116
IsTechnical(r) == ContainsAny(Lower(r[1]), ContextKeywords)

\* _prepare_context as it would be if it kept the order of the results.
PreparePiecesInResultOrder(results) == [i \in 1..Len(results) |-> Piece(results[i])]

\* technical + general of line 122: the formatted results, lines 113-119.
PreparePieces(results) ==
    LET Tech(r) == IsTechnical(r)
        Gen(r) == ~IsTechnical(r)
        technical == SelectSeq(results, Tech)
        general == SelectSeq(results, Gen)
    IN [i \in 1..Len(technical) |-> Piece(technical[i])]
       \o [i \in 1..Len(general) |-> Piece(general[i])]

\* _prepare_context(results), lines 111-122.
PrepareContext(results) == Join(<<"\n", "\n">>, PreparePieces(results))

\* ------------------------------------------------------- the model's reply
\* "Error generating response: "
PrefixError ==
    <<"E", "r", "r", "o", "r", " ", "g", "e", "n", "e", "r", "a", "t", "i", "n", "g", " ",
      "r", "e", "s", "p", "o", "n", "s", "e", ":", " ">>

\* query_gemma as it would be if line 43 returned an empty string.
QueryGemmaSilent(reply) ==
    IF reply.kind = "error" THEN <<>> ELSE reply.text

\* query_gemma(prompt), lines 19-43: the content of a reply that arrived (kind
\* "content"; kind "null" is a reply whose content is null, and None is
\* returned), or, when the request or the reading of the reply raised e (kind
\* "error", text str(e)), the text of line 43.  The reply is an input: whatever
\* the prompt was, the service may say anything.
QueryGemma(reply) ==
    IF reply.kind = "error" THEN PrefixError \o reply.text ELSE reply.text

\* The last position of the longest run of characters from position i on that
\* are c (same = TRUE) or are not c (same = FALSE); i - 1 when the run is empty.
RECURSIVE RunEnd(_, _, _, _)
RunEnd(s, i, c, same) ==
    IF i <= Len(s) /\ ((s[i] = c) = same) THEN RunEnd(s, i + 1, c, same) ELSE i - 1

\* re.sub(r'\*\*([^\*]+)\*\*', r'\1', s) with m = 2, line 140, and
\* re.sub(r'\*([^\*]+)\*', r'\1', s) with m = 1, line 141: from the left, m
\* stars, the longest run of other characters (one at least), m stars.
RECURSIVE RemoveMarks(_, _, _)
RemoveMarks(s, m, i) ==
    IF i > Len(s) THEN <<>>
    ELSE LET Stars(a) == /\ a + m - 1 <= Len(s)
                         /\ \A x \in a..(a + m - 1) : s[x] = "*"
             j == RunEnd(s, i + m, "*", FALSE)
         IN IF Stars(i) /\ j >= i + m /\ Stars(j + 1)
            THEN SubSeq(s, i + m, j) \o RemoveMarks(s, m, j + m + 1)
            ELSE <<s[i]>> \o RemoveMarks(s, m, i + 1)

\* re.sub(r'^#+.*\n', '', s, flags=re.MULTILINE), line 142: a line that starts
\* with # goes, with its newline; a last line without newline stays.
RECURSIVE RemoveHeaders(_, _)
RemoveHeaders(s, i) ==
    IF i > Len(s) THEN <<>>
    ELSE LET lineStart == i = 1 \/ s[i - 1] = "\n"
             j == RunEnd(s, i, "\n", FALSE) + 1
         IN IF lineStart /\ s[i] = "#" /\ j <= Len(s)
            THEN RemoveHeaders(s, j + 1)
            ELSE <<s[i]>> \o RemoveHeaders(s, i + 1)

\* re.sub(r'\n{3,}', '\n\n', s), line 143
RECURSIVE NormalizeNewlines(_, _)
NormalizeNewlines(s, i) ==
    IF i > Len(s) THEN <<>>
    ELSE IF s[i] # "\n" THEN <<s[i]>> \o NormalizeNewlines(s, i + 1)
    ELSE LET j == RunEnd(s, i, "\n", TRUE)
         IN (IF j - i + 1 >= 3 THEN <<"\n", "\n">> ELSE SubSeq(s, i, j))
            \o NormalizeNewlines(s, j + 1)

WhiteSpace == {" ", "\n", "\t", "\r"}

\* str.strip(), line 143
Strip(s) ==
    LET inner == {i \in 1..Len(s) : s[i] \notin WhiteSpace}
    IN IF inner = {} THEN <<>>
       ELSE SubSeq(s, CHOOSE i \in inner : \A j \in inner : i <= j,
                      CHOOSE i \in inner : \A j \in inner : i >= j)

\* _clean_response(response), lines 138-144.
CleanResponse(response) ==
    LET bold == RemoveMarks(response, 2, 1)
        italics == RemoveMarks(bold, 1, 1)
        headers == RemoveHeaders(italics, 1)
    IN Strip(NormalizeNewlines(headers, 1))

\* ---------------------------------------------------------- generate_answer
\* self.vector_store.search(query_embedding, k, pdf_name=pdf_name), line 56:
\* whether it raises and, if not, what it returns.
SearchCall(vecs, t, p, n, q, k, pdf_name) ==
    LET cands == Candidates(vecs, t, q, k)
    IN IF SearchRaises(cands, p, n, pdf_name)
       THEN [raises |-> TRUE, results |-> <<>>]
       ELSE [raises |-> FALSE, results |-> SearchResults(cands, t, p, n, k, pdf_name)]

\* The loop of lines 54-58 as it would be with <= on line 57.
RECURSIVE BestResultsLatest(_, _, _)
BestResultsLatest(sets, i, best) ==
    IF i > Len(sets) THEN best
    ELSE BestResultsLatest(sets, i + 1,
            IF sets[i] # <<>> /\ (best = <<>> \/ sets[i][1][2] <= best[1][2])
            THEN sets[i] ELSE best)

\* The loop of lines 54-58 on the result sets of the variations, from
\* variation i on with best_results = best.
RECURSIVE BestResults(_, _, _)
BestResults(sets, i, best) ==
    IF i > Len(sets) THEN best
    ELSE BestResults(sets, i + 1,
            IF sets[i] # <<>> /\ (best = <<>> \/ sets[i][1][2] < best[1][2])   \* line 57
            THEN sets[i] ELSE best)                                           \* line 58

Min(a, b) == IF a < b THEN a ELSE b

\* _get_fallback_chunks as it would be without the condition of line 108.
FallbackChunksUnfiltered(t, p, n, pdf_name, k) ==
    LET m == Min(k, Min(Len(t), Min(Len(p), Len(n))))
    IN AsTuple([i \in 1..m |-> <<t[i], 0, p[i], n[i]>>])

\* _get_fallback_chunks(pdf_name, k), lines 98-109: zip stops at the shortest
\* of the three slices, the filter of line 108 runs on what was zipped.
FallbackChunks(t, p, n, pdf_name, k) ==
    LET m == Min(k, Min(Len(t), Min(Len(p), Len(n))))
        zipped == AsTuple([i \in 1..m |-> <<t[i], 0, p[i], n[i]>>])
        Kept(r) == pdf_name = None \/ r[4] = pdf_name
    IN SelectSeq(zipped, Kept)

\* What a call that raised leaves of its local variables.
Raised(e, variations) ==
    [outcome |-> e, answer |-> <<>>, pages |-> <<>>, chunks |-> <<>>,
     variations |-> variations, sets |-> <<>>, fallback |-> FALSE, context |-> <<>>]

\* generate_answer(query, pdf_name, k), lines 45-72, on the store (vecs, t, p,
\* n).  embs[i] is the embedding of variation i (line 55), encodeRaises says
\* that the embedding model raises instead, reply is what query_gemma meets.
\* The prompt of line 66 is not built: the reply does not depend on it.
GenerateAnswer(vecs, t, p, n, query, pdf_name, k, embs, encodeRaises, reply) ==
    LET variations == GenerateQueryVariations(query)                     \* line 50
        calls == AsTuple([i \in 1..Len(variations) |->
                    SearchCall(vecs, t, p, n, embs[i], k, pdf_name)])       \* line 56
        sets == AsTuple([i \in 1..Len(variations) |-> calls[i].results])
        best == BestResults(sets, 1, <<>>)                                \* lines 51-58
        fallback == best = <<>>                                          \* line 61
        best_results == IF fallback THEN FallbackChunks(t, p, n, pdf_name, k)
                        ELSE best                                        \* line 62
        context == PrepareContext(best_results)                          \* line 65
        answer == QueryGemma(reply)                                      \* line 69
    IN IF encodeRaises THEN Raised("EncodeError", variations)             \* line 55
       ELSE IF \E i \in 1..Len(variations) : calls[i].raises
       THEN Raised("IndexError", variations)                             \* line 56
       ELSE IF reply.kind = "null"
       THEN Raised("TypeError", variations)           \* line 140: re.sub on None
       ELSE [outcome |-> "ok",
             answer |-> CleanResponse(answer),                           \* line 70
             pages |-> [i \in 1..Len(best_results) |-> best_results[i][3]],
             chunks |-> best_results,                                    \* line 72
             variations |-> variations, sets |-> sets, fallback |-> fallback,
             context |-> context]

\* ------------------------------------------- the inputs of generate_answer
\* Largest number of chunks in the index.
MaxChunks == 4

\* "intro"
TextIntro ==
    <<"i", "n", "t", "r", "o">>
\* "The Theorem"
TextTheorem ==
    <<"T", "h", "e", " ", "T", "h", "e", "o", "r", "e", "m">>
\* "An answer"
TextAnswer ==
    <<"A", "n", " ", "a", "n", "s", "w", "e", "r">>

\* Chunks as process_pdfs makes them, the text as its characters.
AnswerChunks == {<<TextIntro, 1, "A.pdf">>, <<TextTheorem, 2, "B.pdf">>}

\* What well-formed uploads leave in the store: a vector and a chunk for each
\* position, <<vector, chunk>>.
Stores == SeqsUpTo(Vecs \X AnswerChunks, MaxChunks)

\* A query of one variation and a query of three.
AnswerQueries == {WordGradient, JoinWords(<<WordWhatIs, WordGradient>>)}

\* The embeddings of the variations: a variation lies on a stored vector or
\* away from it.
QueryPoints == Vecs

ReplyPlain == [kind |-> "content", text |-> TextAnswer]

InitAnswer ==
    \E store \in Stores, query \in AnswerQueries, k \in Ks, pdf_name \in {None, "A.pdf"} :
    \E embs \in [1..Len(GenerateQueryVariations(query)) -> QueryPoints] :
       InitCallOn(AsTuple([i \in 1..Len(store) |-> store[i][1]]),
                  AsTuple([i \in 1..Len(store) |-> store[i][2][1]]),
                  AsTuple([i \in 1..Len(store) |-> store[i][2][2]]),
                  AsTuple([i \in 1..Len(store) |-> store[i][2][3]]),
                  [query |-> query, pdf_name |-> pdf_name, k |-> k, embs |-> embs,
                   encodeRaises |-> FALSE, reply |-> ReplyPlain])

\* rag_pipeline.generate_answer(query, pdf_name, k) with the arguments of arg.
Answer ==
    /\ op = "call"
    /\ \E g \in {GenerateAnswer(index, texts, page_numbers, pdf_names, arg.query,
                                arg.pdf_name, arg.k, arg.embs, arg.encodeRaises,
                                arg.reply)} :
          /\ outcome' = g.outcome
          /\ res' = <<g.answer, g.pages, g.chunks>>
          /\ run' = [variations |-> g.variations, sets |-> g.sets,
                     fallback |-> g.fallback, context |-> g.context]
          /\ log' = IF g.fallback
                    THEN "No relevant results found, using fallback chunks"  \* line 100
                    ELSE ""
    /\ op' = "generate_answer"
    /\ UNCHANGED arg
    /\ PureCall

NextAnswer == Answer

SpecAnswer == InitAnswer /\ [][NextAnswer]_vars

\* ------------------------------------------ the inputs of _prepare_context
\* Largest number of results handed to _prepare_context.
MaxResults == 3

\* "a waterproof coat"
TextWaterproof ==
    <<"a", " ", "w", "a", "t", "e", "r", "p", "r", "o", "o", "f", " ", "c", "o", "a", "t">>
\* "EQUATION (1)"
TextEquation ==
    <<"E", "Q", "U", "A", "T", "I", "O", "N", " ", "(", "1", ")">>

\* Results (text, distance, page, name) as search returns them: two technical
\* ones (one by a keyword inside a word), two general ones.
ContextResults ==
    {<<TextIntro, 0, 1, "A.pdf">>, <<TextTheorem, 4, 2, "B.pdf">>,
     <<TextWaterproof, 1, 12, "A.pdf">>, <<TextEquation, 4, 3, "B.pdf">>}

InitContext == \E results \in SeqsUpTo(ContextResults, MaxResults) :
                  InitCall([results |-> results])

\* context = self._prepare_context(best_results)
Context ==
    /\ op = "call"
    /\ op' = "_prepare_context"
    /\ res' = PrepareContext(arg.results)
    /\ run' = [pieces |-> PreparePieces(arg.results)]
    /\ UNCHANGED <<arg, outcome, log>>
    /\ PureCall

\* The next result sequence.
NextResults ==
    /\ op = "_prepare_context"
    /\ \E results \in SeqsUpTo(ContextResults, MaxResults) : arg' = [results |-> results]
    /\ op' = "call"
    /\ res' = <<>>
    /\ run' = <<>>
    /\ UNCHANGED <<outcome, log>>
    /\ PureCall

NextContext == Context \/ NextResults

SpecContext == InitContext /\ [][NextContext]_vars

\* -------------------------------------------------------- get_full_context
\* s[:m] of Python, for a sequence s and an integer m.
Slice(s, m) ==
    IF m >= 0 THEN SubSeq(s, 1, Min(m, Len(s)))
    ELSE SubSeq(s, 1, IF Len(s) + m > 0 THEN Len(s) + m ELSE 0)

\* The 1000 of max_chars//1000, line 177.
CharsPerPage == 1000

\* Lines 150-170 as they would be without the fallback of lines 161-170.
AllChunksNoFallback(t, p, n, pdf_name) ==
    LET Kept(i) == pdf_name = None \/ n[i] = pdf_name
        kept == SelectSeq([i \in 1..Len(t) |-> i], Kept)
    IN AsTuple([j \in 1..Len(kept) |-> <<t[kept[j]], 0, p[kept[j]], n[kept[j]]>>])

\* all_chunks of get_full_context, lines 150-170, on three lists of one length
\* (no sequence of calls makes their lengths differ).
AllChunks(t, p, n, pdf_name) ==
    LET Kept(i) == pdf_name = None \/ n[i] = pdf_name                     \* line 153
        kept == SelectSeq([i \in 1..Len(t) |-> i], Kept)
        filtered == AsTuple([j \in 1..Len(kept) |->
                       <<t[kept[j]], 0, p[kept[j]], n[kept[j]]>>])       \* lines 154-159
        m == Min(Len(t), Min(Len(p), Len(n)))
    IN IF filtered = <<>>                                                \* line 161
       THEN AsTuple([i \in 1..m |-> <<t[i], 0, p[i], n[i]>>])            \* lines 163-170
       ELSE filtered

\* Lines 175-177 as they would be without the test of line 175 and its body.
TruncateNever(context, pages, max_chars) ==
    [context |-> context, page_numbers |-> pages]

\* Lines 175-177.
Truncate(context, pages, max_chars) ==
    IF Len(context) > max_chars
    THEN [context |-> Slice(context, max_chars),
          page_numbers |-> Slice(pages, max_chars \div CharsPerPage)]
    ELSE [context |-> context, page_numbers |-> pages]

\* get_full_context(pdf_name, max_chars), lines 148-179 (agent_name is not
\* read).
GetFullContext(t, p, n, pdf_name, max_chars) ==
    LET all_chunks == AllChunks(t, p, n, pdf_name)
        context == Join(<<"\n">>, [i \in 1..Len(all_chunks) |-> all_chunks[i][1]])  \* line 172
        pages == AsTuple([i \in 1..Len(all_chunks) |-> all_chunks[i][3]])           \* line 173
        cut == Truncate(context, pages, max_chars)
    IN <<cut.context, cut.page_numbers, all_chunks>>                               \* line 179

\* ---------------------------------------- the inputs of get_full_context
\* CHUNK_SIZE, the length of a full chunk.
ChunkSize == 1000

\* max_chars when the caller gives none.
DefaultMaxChars == 10000

\* A chunk text of CHUNK_SIZE characters: "long long long ..."
TextLong == AsTuple([i \in 1..ChunkSize |-> <<"l", "o", "n", "g", " ">>[((i - 1) % 5) + 1]])

\* Two short chunks and a full one.
ContextChunks ==
    {<<TextIntro, 1, "A.pdf">>, <<TextTheorem, 2, "B.pdf">>, <<TextLong, 3, "B.pdf">>}

MaxCharsValues == {0, 7, ChunkSize, 2 * ChunkSize, DefaultMaxChars}

InitFullContext ==
    \E chunks \in SeqsUpTo(ContextChunks, MaxChunks), pdf_name \in Names \cup {None},
       max_chars \in MaxCharsValues :
       InitCallOn(AsTuple([i \in 1..Len(chunks) |-> 0]),
                  AsTuple([i \in 1..Len(chunks) |-> chunks[i][1]]),
                  AsTuple([i \in 1..Len(chunks) |-> chunks[i][2]]),
                  AsTuple([i \in 1..Len(chunks) |-> chunks[i][3]]),
                  [pdf_name |-> pdf_name, max_chars |-> max_chars])

\* rag_pipeline.get_full_context(pdf_name, max_chars) with the arguments of arg.
FullContext ==
    /\ op = "call"
    /\ op' = "get_full_context"
    /\ res' = GetFullContext(texts, page_numbers, pdf_names, arg.pdf_name, arg.max_chars)
    /\ log' = IF AllChunksNoFallback(texts, page_numbers, pdf_names, arg.pdf_name) = <<>>
              THEN "No chunks found, falling back to all available chunks"   \* line 162
              ELSE ""
    /\ UNCHANGED <<arg, outcome, run>>
    /\ PureCall

NextFullContext == FullContext

SpecFullContext == InitFullContext /\ [][NextFullContext]_vars

\* ---------------------------------------------------------------- /query
\* k of generate_answer when the caller gives none.
DefaultK == 5

\* line 82: the phrases of an answer that is retried
RetryPhrases ==
    <<<<"n", "o", " ", "r", "e", "l", "e", "v", "a", "n", "t">>,
      <<"i", "n", "s", "u", "f", "f", "i", "c", "i", "e", "n", "t">>,
      <<"n", "o", "t", " ", "f", "o", "u", "n", "d">>>>

\* "Explain in detail about: "
PrefixReformulated ==
    <<"E", "x", "p", "l", "a", "i", "n", " ", "i", "n", " ", "d", "e", "t", "a", "i", "l",
      " ", "a", "b", "o", "u", "t", ":", " ">>
\* "Error processing your query. Please try again or rephrase your question."
TextApology ==
    <<"E", "r", "r", "o", "r", " ", "p", "r", "o", "c", "e", "s", "s", "i", "n", "g", " ",
      "y", "o", "u", "r", " ", "q", "u", "e", "r", "y", ".", " ", "P", "l", "e", "a", "s",
      "e", " ", "t", "r", "y", " ", "a", "g", "a", "i", "n", " ", "o", "r", " ", "r", "e",
      "p", "h", "r", "a", "s", "e", " ", "y", "o", "u", "r", " ", "q", "u", "e", "s", "t",
      "i", "o", "n", ".">>
\* "None"
TextNone ==
    <<"N", "o", "n", "e">>
\* "No specific citations found"
TextNoCitations ==
    <<"N", "o", " ", "s", "p", "e", "c", "i", "f", "i", "c", " ", "c", "i", "t", "a", "t",
      "i", "o", "n", "s", " ", "f", "o", "u", "n", "d">>

\* sorted(set(pages)), line 88
RECURSIVE SortedSet(_)
SortedSet(S) ==
    IF S = {} THEN <<>>
    ELSE LET least == CHOOSE x \in S : \A y \in S : x <= y
         IN <<least>> \o SortedSet(S \ {least})

\* f'<a href="/pdf?page={page}&pdf_name={name}">Page {page}</a>', line 90
Link(page, name) ==
    <<"<", "a", " ", "h", "r", "e", "f", "=", "\"", "/", "p", "d", "f", "?", "p", "a", "g",
      "e", "=">> \o DecimalText(page)
    \o <<"&", "p", "d", "f", "_", "n", "a", "m", "e", "=">> \o NameText(name)
    \o <<"\"", ">", "P", "a", "g", "e", " ">> \o DecimalText(page) \o <<"<", "/", "a", ">">>

\* Lines 87-100: the response made of an answer and its chunks.
Response(answer, chunks) ==
    IF chunks # <<>>
    THEN LET relevant_pages == SortedSet({chunks[i][3] : i \in 1..Len(chunks)})
         IN [answer |-> answer,
             citations |-> Join(<<",", " ">>,
                                [i \in 1..Len(relevant_pages) |->
                                    Link(relevant_pages[i], chunks[1][4])])]
    ELSE [answer |-> answer, citations |-> TextNoCitations]

\* Lines 104-109: the response after an exception.
Apology == [answer |-> TextApology, citations |-> TextNone]

\* Line 82 as it would be if no answer were retried.
NeedsRetryNever(answer) == FALSE

\* Line 82: any(phrase in answer.lower() for phrase in [...])
NeedsRetry(answer) == ContainsAny(Lower(answer), RetryPhrases)

\* query_pdf(request), lines 74-109, on the store (vecs, t, p, n): first and
\* second are what the first and the second call of generate_answer meet (the
\* embedding of every variation, whether the embedding model raises, the
\* reply of the language model).
QueryPdf(vecs, t, p, n, query, first, second) ==
    LET Call(q, meets) ==
            GenerateAnswer(vecs, t, p, n, q, None, DefaultK,
                           [i \in 1..Len(GenerateQueryVariations(q)) |-> meets.emb],
                           meets.encodeRaises, meets.reply)
        g1 == Call(query, first)                                           \* line 79
        reformulated_query == PrefixReformulated \o query                  \* line 83
        g2 == Call(reformulated_query, second)                             \* line 84
    IN IF g1.outcome # "ok"
       THEN [response |-> Apology, calls |-> <<query>>, outcomes |-> <<g1.outcome>>,
             answers |-> <<g1.answer>>]
       ELSE IF ~NeedsRetry(g1.answer)
       THEN [response |-> Response(g1.answer, g1.chunks), calls |-> <<query>>,
             outcomes |-> <<g1.outcome>>, answers |-> <<g1.answer>>]
       ELSE [response |-> IF g2.outcome # "ok" THEN Apology
                          ELSE Response(g2.answer, g2.chunks),
             calls |-> <<query, reformulated_query>>,
             outcomes |-> <<g1.outcome, g2.outcome>>,
             answers |-> <<g1.answer, g2.answer>>]

\* ------------------------------------------------- the inputs of /query
\* "**No Relevant** text\n"
TextNoRelevant ==
    <<"*", "*", "N", "o", " ", "R", "e", "l", "e", "v", "a", "n", "t", "*", "*", " ", "t",
      "e", "x", "t", "\n">>
\* "Insufficient context"
TextInsufficient ==
    <<"I", "n", "s", "u", "f", "f", "i", "c", "i", "e", "n", "t", " ", "c", "o", "n", "t",
      "e", "x", "t">>
\* "Read timed out"
TextTimeout ==
    <<"R", "e", "a", "d", " ", "t", "i", "m", "e", "d", " ", "o", "u", "t">>
\* "404 Client Error: Not Found"
TextNotFound ==
    <<"4", "0", "4", " ", "C", "l", "i", "e", "n", "t", " ", "E", "r", "r", "o", "r", ":",
      " ", "N", "o", "t", " ", "F", "o", "u", "n", "d">>

\* What the language model may say or how the request may fail.
Replies ==
    {ReplyPlain,
     [kind |-> "content", text |-> TextNoRelevant],
     [kind |-> "content", text |-> TextInsufficient],
     [kind |-> "null", text |-> <<>>],
     [kind |-> "error", text |-> TextTimeout],
     [kind |-> "error", text |-> TextNotFound]}

\* What a call of generate_answer may meet.
Meets == [emb : {0}, encodeRaises : BOOLEAN, reply : Replies]

InitQuery ==
    \E store \in SeqsUpTo({0} \X AnswerChunks, MaxN), query \in AnswerQueries,
       first \in Meets, second \in Meets :
       InitCallOn(AsTuple([i \in 1..Len(store) |-> store[i][1]]),
                  AsTuple([i \in 1..Len(store) |-> store[i][2][1]]),
                  AsTuple([i \in 1..Len(store) |-> store[i][2][2]]),
                  AsTuple([i \in 1..Len(store) |-> store[i][2][3]]),
                  [query |-> query, first |-> first, second |-> second])

\* POST /query with the request of arg.
Query_pdf ==
    /\ op = "call"
    /\ \E r \in {QueryPdf(index, texts, page_numbers, pdf_names, arg.query, arg.first,
                          arg.second)} :
          /\ res' = r.response
          /\ run' = [calls |-> r.calls, outcomes |-> r.outcomes, answers |-> r.answers]
          /\ log' = IF \E i \in 1..Len(r.outcomes) : r.outcomes[i] # "ok"
                    THEN "Error processing query"                        \* line 105
                    ELSE ""
    /\ op' = "query_pdf"
    /\ outcome' = "ok"
    /\ UNCHANGED arg
    /\ PureCall

NextQueryPdf == Query_pdf

SpecQuery == InitQuery /\ [][NextQueryPdf]_vars

\* ========================================================== /upload_pdfs
\* upload_pdfs, backend1/app/api/endpoints.py lines 36-72, is a coroutine on
\* the one event loop of the service: a request runs alone from one await to
\* the next, and at "content = await file.read()" (line 50) the loop may run
\* another request.  All requests use the one module-level vector_store.
\* Largest number of requests in progress at a time.
MaxRequests == 2
\* Largest number of files in a request.
MaxFiles == 2

Requests == 1..MaxRequests

\* The file names of a request.
UploadNames == Names \cup {"notes.txt"}

\* Line 46: file.filename.lower().endswith('.pdf')
IsPdf(name) == name \in Names

FileLists == SeqsUpTo(UploadNames, MaxFiles) \ {<<>>}

\* process_pdfs(pdf_paths, ...) of line 56: the chunks of the files in order,
\* one chunk for the one page of each.
RECURSIVE ProcessPdfs(_)
ProcessPdfs(files) ==
    IF files = <<>> THEN <<>>
    ELSE (IF files[1] = "A.pdf" THEN <<<<"t1", 1, "A.pdf">>>>
          ELSE <<<<"t2", 2, "B.pdf">>>>)
         \o ProcessPdfs(Tail(files))

\* embedding_model.encode([chunk[0] for chunk in chunks]), line 63: a vector
\* for each chunk, the same for the same text.
Encode(chunks) ==
    AsTuple([i \in 1..Len(chunks) |-> IF chunks[i][1] = "t1" THEN 0 ELSE 2])

\* The service is up, its store empty or holding an earlier batch, and the
\* requests have arrived with their files.
InitUpload ==
    /\ \E earlier \in {<<>>, <<"B.pdf">>} :
          /\ index = Encode(ProcessPdfs(earlier))
          /\ texts = Column(ProcessPdfs(earlier), 1)
          /\ page_numbers = Column(ProcessPdfs(earlier), 2)
          /\ pdf_names = Column(ProcessPdfs(earlier), 3)
          /\ indexFile = IF earlier = <<>> THEN Absent ELSE IndexArtifact(index)
          /\ textsFile = IF earlier = <<>> THEN Absent
                         ELSE TextsArtifact(texts, page_numbers, pdf_names)
    /\ op = "__init__"
    /\ arg = NoArg
    /\ outcome = "ok"
    /\ log = ""
    /\ res = <<>>
    /\ pc = "idle"
    /\ pend = <<>>
    /\ \E files \in [Requests -> FileLists] :
          run = [r \in Requests |-> [at |-> "new", files |-> files[r], reading |-> 0]]

\* Lines 67-70: the request ends with the success message.
Completes(r) ==
    /\ op' = "upload_pdfs"
    /\ arg' = [request |-> r]
    /\ outcome' = "ok"
    /\ run' = [run EXCEPT ![r].at = "done"]

\* Lines 71-73: the request ends with HTTP 500.
Fails(r) ==
    /\ op' = "upload_pdfs"
    /\ arg' = [request |-> r]
    /\ outcome' = "HTTP 500"
    /\ log' = "Error processing PDFs"
    /\ run' = [run EXCEPT ![r].at = "failed"]

\* Lines 39-50 of request r: reset the store, then the loop up to the await
\* of the first file.
UploadReset(r, denyIndex, denyTexts) ==
    /\ run # <<>>
    /\ run[r].at = "new"
    /\ ResetMemory                                                     \* line 40
    /\ LET s == ResetFiles(indexFile, textsFile, denyIndex, denyTexts)
       IN /\ indexFile' = s.indexFile
          /\ textsFile' = s.textsFile
          /\ IF s.outcome # "ok" \/ ~IsPdf(run[r].files[1])            \* line 46
             THEN Fails(r)
             ELSE /\ op' = "reset"
                  /\ arg' = NoArg
                  /\ outcome' = "ok"
                  /\ log' = ""
                  /\ run' = [run EXCEPT ![r].at = "reading", ![r].reading = 1]
    /\ res' = <<>>
    /\ UNCHANGED <<pc, pend>>

\* Lines 50-54 of request r and the loop up to the next await: the read of a
\* file that is not the last one has returned (or raised).
UploadRead(r, readRaises) ==
    /\ run # <<>>
    /\ run[r].at = "reading"
    /\ run[r].reading < Len(run[r].files)
    /\ IF readRaises \/ ~IsPdf(run[r].files[run[r].reading + 1])       \* line 46
       THEN Fails(r)
       ELSE /\ run' = [run EXCEPT ![r].reading = @ + 1]
            /\ UNCHANGED <<op, arg, outcome, log>>
    /\ UNCHANGED <<mem, disk, res, pc, pend>>

\* Lines 50-70 of request r: the read of the last file has returned (or
\* raised), the chunks of the request's files are embedded and added.
UploadAdd(r, readRaises, fail) ==
    /\ run # <<>>
    /\ run[r].at = "reading"
    /\ run[r].reading = Len(run[r].files)
    /\ IF readRaises
       THEN /\ Fails(r)
            /\ UNCHANGED <<mem, disk>>
       ELSE LET chunks == ProcessPdfs(run[r].files)                    \* line 56
                vecs == Encode(chunks)                                 \* line 63
                idx == index \o vecs                                   \* line 64
                t == texts \o Column(chunks, 1)
                p == page_numbers \o Column(chunks, 2)
                n == pdf_names \o Column(chunks, 3)
                s == SaveIndex(idx, t, p, n, indexFile, textsFile, fail)
            IN /\ index' = idx
               /\ texts' = t
               /\ page_numbers' = p
               /\ pdf_names' = n
               /\ indexFile' = s.indexFile
               /\ textsFile' = s.textsFile
               /\ log' = s.log
               /\ Completes(r)
    /\ UNCHANGED <<res, pc, pend>>

Upload_reset == \E r \in Requests, denyIndex, denyTexts \in BOOLEAN :
                   UploadReset(r, denyIndex, denyTexts)
Upload_read == \E r \in Requests, readRaises \in BOOLEAN : UploadRead(r, readRaises)
Upload_add == \E r \in Requests, readRaises \in BOOLEAN, fail \in SaveFailures :
                 UploadAdd(r, readRaises, fail)

NextUpload == Upload_reset \/ Upload_read \/ Upload_add

SpecUpload == InitUpload /\ [][NextUpload]_vars

\* ------------------------------------------------------------------ claims
Empty == Len(index) = 0 /\ Len(texts) = 0 /\ Len(page_numbers) = 0 /\ Len(pdf_names) = 0
Populated == ~Empty
LengthsAgree ==
    /\ Len(index) = Len(texts)
    /\ Len(texts) = Len(page_numbers)
    /\ Len(page_numbers) = Len(pdf_names)

\* C1: in every reachable state of the store the number of vectors in the
\* index equals len(texts), len(page_numbers) and len(pdf_names).
C1_LengthsAlwaysAgree == LengthsAgree

\* C2: add_vectors with a number of vectors different from the number of
\* chunks fails with a validation error reported to the caller and leaves the
\* index and the three lists as they were.
C2_MismatchRejected ==
    [][(op' = "add_vectors" /\ arg'.nv # arg'.nc)
          => (outcome' = "ValidationError" /\ UNCHANGED mem)]_vars

\* C3: with a PDF filter, every result search returns carries the filter's
\* document, and search returns the empty sequence when no chunk of the index
\* carries it.
C3_FilterCorrect ==
    (op = "search" /\ arg.pdf_name # None)
       => /\ outcome = "ok"
          /\ \A i \in 1..Len(res) : res[i][4] = arg.pdf_name
          /\ (\A j \in 1..Len(pdf_names) : pdf_names[j] # arg.pdf_name) => res = <<>>

\* A filtered search returned a chunk of A.pdf while the index also holds, at
\* a position with a vector, a chunk of B.pdf.
C3_Witness ==
    /\ op = "search"
    /\ arg.pdf_name = "A.pdf"
    /\ Len(res) >= 1
    /\ \E j \in 1..Len(pdf_names) : j <= Len(index) /\ pdf_names[j] = "B.pdf"

\* C4: search returns at most k results, in an order of non-decreasing
\* distance.
C4_TopKRanked ==
    op = "search"
       => /\ Len(res) <= arg.k
          /\ \A i \in 1..(Len(res) - 1) : res[i][2] <= res[i + 1][2]

\* A search returned two results at different distances, the nearer one being
\* the chunk that was added later.
C4_Witness ==
    /\ op = "search"
    /\ Len(res) = 2
    /\ res[1][2] < res[2][2]
    /\ texts[1] # texts[2]
    /\ res[1][1] = texts[2]

\* C5: after reset() has returned, the index and the three lists are empty
\* and neither artifact exists; a reset() that follows directly returns too and
\* leaves that same state.
C5_ResetEmpties ==
    /\ []((op = "reset" /\ outcome = "ok")
            => (Empty /\ ~Exists(indexFile) /\ ~Exists(textsFile)))
    /\ [][(op = "reset" /\ outcome = "ok" /\ op' = "reset")
            => (outcome' = "ok" /\ UNCHANGED <<mem, disk>>)]_vars

\* reset() has returned.
C5_Witness == op = "reset" /\ outcome = "ok" /\ Empty /\ ~Exists(indexFile)

\* C6: no search, under any interleaving with add_vectors and reset, sees a
\* store whose index and metadata lists differ in length.
C6_NoTornSearch == op = "search" => (outcome = "ok" /\ LengthsAgree)

\* C7: when the write inside add_vectors fails, the new entries stay in
\* memory and the caller of add_vectors gets a persistence error.
C7_SaveFailureReported ==
    [][(op' = "add_vectors" /\ log' = "Error saving index")
          => /\ Len(index') = Len(index) + arg'.nv
             /\ Len(texts') = Len(texts) + arg'.nc
             /\ outcome' = "PersistenceError"]_vars

\* C8: constructing the store never raises, and it ends empty when only one
\* artifact exists or an artifact cannot be read.
C8_ConstructNeverRaises ==
    op = "__init__"
       => /\ outcome = "ok"
          /\ (log = "Error loading index" \/ Exists(indexFile) # Exists(textsFile))
                => Empty

\* C9: reset() leaves the index and the three lists empty and raises nothing,
\* also when the filesystem denies the deletion of an artifact.
C9_ResetNeverRaises == op = "reset" => (Empty /\ outcome = "ok")

\* The batch passes lines 41-49: at least one vector, of the width of the
\* index, and a first chunk of three.
Accepted(a) == a.nv > 0 /\ a.first3 /\ a.d = Dimension

\* C10 as stated: every add leads to populated, every reset to empty.
C10_EveryAddPopulates ==
    /\ op = "add_vectors" => Populated
    /\ op = "reset" => Empty

\* C10, amended: an add_vectors call with at least one vector, of the width of
\* the index, and a 3-tuple as first chunk leads to populated, any other
\* add_vectors call leaves the store as it was; every reset leads to empty;
\* search changes nothing.
C10_Transitions ==
    [][/\ (op' = "add_vectors" /\ Accepted(arg')) => Populated'
       /\ (op' = "add_vectors" /\ ~Accepted(arg')) => UNCHANGED mem
       /\ op' = "reset" => Empty'
       /\ op' = "search" => UNCHANGED mem]_vars

\* An accepted add_vectors call has returned and the store is populated.
C10_Witness == op = "add_vectors" /\ Accepted(arg) /\ outcome = "ok" /\ Populated

\* C11: _generate_query_variations returns the query itself, followed by the
\* reformulations of the definition category when the query matches it, then
\* those of the technical category when it matches that, then the one of the
\* comparison category when it matches that, each category on its own.
C11_VariationsInOrder ==
    op = "_generate_query_variations"
       => LET q == arg.query
              Matches(words) == \E i \in 1..Len(words) : Contains(Lower(q), words[i])
              Part(words, prefixes) ==
                  IF Matches(words) THEN [i \in 1..Len(prefixes) |-> prefixes[i] \o q]
                  ELSE <<>>
          IN /\ Len(res) >= 1
             /\ res[1] = q
             /\ Tail(res) = Part(DefinitionWords, <<PrefixExplain, PrefixDetailed>>)
                            \o Part(TechnicalWords, <<PrefixMath, PrefixDerivation>>)
                            \o Part(ComparisonWords, <<PrefixCompare>>)

\* A query that matches all three categories got all five reformulations.
C11_Witness ==
    /\ op = "_generate_query_variations"
    /\ Len(res) = 6
    /\ res[6] = PrefixCompare \o arg.query

\* The chunks of the index that belong to the filtered document (all, without
\* filter).
InFilter(pdf_name) == {i \in 1..Len(pdf_names) : pdf_name = None \/ pdf_names[i] = pdf_name}

\* C12: when no query variation produced any search result and the index holds
\* at least one chunk (of the filtered document, when a filter is given), the
\* result set generate_answer falls back to is not empty.
C12_FallbackNotEmpty ==
    (/\ op = "generate_answer"
     /\ outcome = "ok"
     /\ \A i \in 1..Len(run.sets) : run.sets[i] = <<>>
     /\ InFilter(arg.pdf_name) # {})
       => res[3] # <<>>

\* A text holds one of the words formula, equation, theorem, proof, in any case.
HoldsKeyword(text) ==
    \E w \in {ContextKeywords[i] : i \in 1..Len(ContextKeywords)} :
    \E i \in 1..(Len(text) - Len(w) + 1) : SubSeq(Lower(text), i, i + Len(w) - 1) = w

\* C13: _prepare_context is a stable partition of the results: the context is
\* the formatted results joined by blank lines, each result once, those whose
\* text holds a keyword before those whose text does not, and each of the two
\* groups in the order it had in the result sequence.
C13_StablePartition ==
    op = "_prepare_context"
       => LET results == arg.results
              n == Len(results)
              Tech(i) == HoldsKeyword(results[i][1])
          IN /\ Len(run.pieces) = n
             /\ res = Join(<<"\n", "\n">>, run.pieces)
             /\ \E at \in [1..n -> 1..n] :
                   /\ \A i, j \in 1..n : i # j => at[i] # at[j]
                   /\ \A i \in 1..n : run.pieces[at[i]] = Piece(results[i])
                   /\ \A i, j \in 1..n : (Tech(i) /\ ~Tech(j)) => at[i] < at[j]
                   /\ \A i, j \in 1..n : (i < j /\ Tech(i) = Tech(j)) => at[i] < at[j]

\* A general result came first and two technical ones after it, and the context
\* names them the other way round.
C13_Witness ==
    /\ op = "_prepare_context"
    /\ Len(arg.results) = 3
    /\ arg.results[1][1] = TextIntro
    /\ arg.results[2][1] = TextWaterproof
    /\ arg.results[3][1] = TextTheorem
    /\ run.pieces = <<Piece(arg.results[2]), Piece(arg.results[3]), Piece(arg.results[1])>>

\* The chunk at position i of the index, as get_full_context returns it.
ChunkAt(i) == <<texts[i], 0, page_numbers[i], pdf_names[i]>>

\* The j-th smallest element of a set of numbers.
Nth(S, j) == CHOOSE i \in S : Cardinality({x \in S : x < i}) = j - 1

\* C14: get_full_context returns as its chunks exactly the chunks of the
\* filtered document, in index order, when there is such a chunk (all chunks
\* without a filter), and every chunk of the index, in index order, when the
\* filter matches none.
C14_FilterOrAll ==
    op = "get_full_context"
       => LET matching == InFilter(arg.pdf_name)
              chosen == IF matching # {} THEN matching ELSE 1..Len(texts)
          IN /\ Len(res[3]) = Cardinality(chosen)
             /\ \A j \in 1..Len(res[3]) : res[3][j] = ChunkAt(Nth(chosen, j))

\* The filter names a document the non-empty index has no chunk of, and every
\* chunk was returned.
C14_Witness ==
    /\ op = "get_full_context"
    /\ arg.pdf_name = "A.pdf"
    /\ pdf_names = <<"B.pdf", "B.pdf">>
    /\ Len(res[3]) = 2

\* The length of the texts of chunks joined by single newlines.
RECURSIVE JoinedLen(_)
JoinedLen(chunks) ==
    IF chunks = <<>> THEN 0
    ELSE IF Len(chunks) = 1 THEN Len(chunks[1][1])
    ELSE Len(chunks[1][1]) + 1 + JoinedLen(Tail(chunks))

\* C15 as claimed: for every index content and maxChars, get_full_context
\* returns a context of at most maxChars characters and a page-number list of
\* at most maxChars / 1000 entries.
C15_BothTruncated ==
    op = "get_full_context"
       => /\ Len(res[1]) <= arg.max_chars
          /\ Len(res[2]) <= arg.max_chars \div 1000

\* C15, amended: for every index content and maxChars >= 0 the context has at
\* most maxChars characters; the page-number list has at most maxChars / 1000
\* entries when the joined text was longer than maxChars, and otherwise it
\* holds the page number of every returned chunk.
C15_TruncatedTogether ==
    op = "get_full_context"
       => LET pages == [i \in 1..Len(res[3]) |-> res[3][i][3]]
          IN /\ Len(res[1]) <= arg.max_chars
             /\ JoinedLen(res[3]) > arg.max_chars
                   => /\ Len(res[2]) <= arg.max_chars \div 1000
                      /\ res[2] = SubSeq(pages, 1, Len(res[2]))
             /\ JoinedLen(res[3]) <= arg.max_chars => res[2] = pages

\* Three full chunks were cut to 2000 characters and two page numbers.
C15_Witness ==
    /\ op = "get_full_context"
    /\ arg.max_chars = 2000
    /\ Len(res[3]) = 3
    /\ Len(res[1]) = 2000
    /\ res[2] = <<3, 3>>

\* An answer holds "no relevant", "insufficient" or "not found", in any case.
HoldsRetryPhrase(answer) ==
    \E w \in {RetryPhrases[i] : i \in 1..Len(RetryPhrases)} :
    \E i \in 1..(Len(answer) - Len(w) + 1) : SubSeq(Lower(answer), i, i + Len(w) - 1) = w

\* C16: one /query request calls generate_answer once or twice, first with the
\* query; a second call happens exactly when the first answer holds a retry
\* phrase, it is made with "Explain in detail about: " before the query, and
\* its answer is the answer of the response whatever it holds.
C16_SingleRetry ==
    op = "query_pdf"
       => /\ Len(run.calls) \in {1, 2}
          /\ run.calls[1] = arg.query
          /\ Len(run.calls) = 2
                <=> (run.outcomes[1] = "ok" /\ HoldsRetryPhrase(run.answers[1]))
          /\ Len(run.calls) = 2
                => /\ run.calls[2] = PrefixReformulated \o arg.query
                   /\ run.outcomes[2] = "ok" => res.answer = run.answers[2]
          /\ (Len(run.calls) = 1 /\ run.outcomes[1] = "ok") => res.answer = run.answers[1]

\* The second answer asked for a retry as the first did, and was returned.
C16_Witness ==
    /\ op = "query_pdf"
    /\ Len(run.calls) = 2
    /\ run.outcomes[2] = "ok"
    /\ HoldsRetryPhrase(run.answers[2])
    /\ res.answer = run.answers[2]

\* C17: a /query request never ends in an exception; when a call of
\* generate_answer raised, the response is the apology with citations "None";
\* when the language model alone failed, generate_answer did not raise and its
\* answer is the text "Error generating response: " and the error.
C17_FailuresAnswered ==
    op = "query_pdf"
       => LET n == Len(run.calls)
              meets == <<arg.first, arg.second>>
          IN /\ outcome = "ok"
             /\ (\E i \in 1..n : run.outcomes[i] # "ok")
                   => res = [answer |-> TextApology, citations |-> TextNone]
             /\ \A i \in 1..n :
                   (~meets[i].encodeRaises /\ meets[i].reply.kind = "error")
                      => /\ run.outcomes[i] = "ok"
                         /\ run.answers[i] = PrefixError \o meets[i].reply.text

\* The embedding model raised in the retry and the apology was returned; the
\* first call had met a failing language model and returned its error text.
C17_Witness ==
    /\ op = "query_pdf"
    /\ outcome = "ok"
    /\ Len(run.calls) = 2
    /\ arg.first.reply.kind = "error"
    /\ run.outcomes = <<"ok", "EncodeError">>
    /\ res = [answer |-> TextApology, citations |-> TextNone]

\* The distance of the top hit of a result set.
TopDistance(results) == results[1][2]

\* C18: the result set generate_answer uses is the result set of one variation,
\* as search returned it: of the variations with a non-empty result set, the
\* earliest whose top hit has the least distance.
C18_BestOfOneVariation ==
    (/\ op = "generate_answer"
     /\ outcome = "ok"
     /\ \E i \in 1..Len(run.sets) : run.sets[i] # <<>>)
       => LET nonEmpty == {i \in 1..Len(run.sets) : run.sets[i] # <<>>}
              least == {i \in nonEmpty :
                          \A j \in nonEmpty :
                             TopDistance(run.sets[i]) <= TopDistance(run.sets[j])}
              earliest == CHOOSE i \in least : \A j \in least : i <= j
          IN /\ Len(run.sets) = Len(run.variations)
             /\ res[3] = run.sets[earliest]

\* The second of three variations had the strictly nearest top hit, and its
\* result set, which is not the first variation's, was used.
C18_Witness ==
    /\ op = "generate_answer"
    /\ outcome = "ok"
    /\ Len(run.sets) = 3
    /\ \A i \in 1..3 : run.sets[i] # <<>>
    /\ TopDistance(run.sets[2]) < TopDistance(run.sets[1])
    /\ TopDistance(run.sets[2]) < TopDistance(run.sets[3])
    /\ res[3] = run.sets[2]

\* C19: generate_answer falls back exactly when every variation's result set
\* was empty; the fallback set has at most k chunks, they are chunks of the
\* index's storage in insertion order, each with distance 0 and, when a filter
\* is given, of the filtered document.
C19_FallbackSet ==
    (op = "generate_answer" /\ outcome = "ok")
       => /\ run.fallback <=> \A i \in 1..Len(run.sets) : run.sets[i] = <<>>
          /\ run.fallback
                => /\ Len(res[3]) <= arg.k
                   /\ \A j \in 1..Len(res[3]) :
                         /\ res[3][j][2] = 0
                         /\ arg.pdf_name # None => res[3][j][4] = arg.pdf_name
                   /\ \E at \in [1..Len(res[3]) -> 1..Len(texts)] :
                         /\ \A j \in 1..Len(res[3]) :
                               /\ res[3][j][1] = texts[at[j]]
                               /\ res[3][j][3] = page_numbers[at[j]]
                               /\ res[3][j][4] = pdf_names[at[j]]
                         /\ \A i, j \in 1..Len(res[3]) : i < j => at[i] < at[j]

\* No search found a chunk of the filtered document among the nearest, and the
\* fallback returned the one that was inserted first.
C19_Witness ==
    /\ op = "generate_answer"
    /\ outcome = "ok"
    /\ run.fallback
    /\ arg.pdf_name = "A.pdf"
    /\ Len(texts) = 4
    /\ res[3] = <<<<texts[1], 0, page_numbers[1], "A.pdf">>>>

\* C20: whenever add_vectors has returned normally, the two artifacts describe
\* the in-memory state: a VectorStore constructed on the same path loads the
\* same vectors, texts, page_numbers and pdf_names (a failed update is
\* reported, so no normal return leaves the disk behind the memory).
C20_DiskDescribesMemory ==
    (op = "add_vectors" /\ outcome = "ok")
       => LET s == LoadExistingIndex(indexFile, textsFile, "none", FALSE, FALSE)
          IN /\ s.index = index
             /\ s.texts = texts
             /\ s.page_numbers = page_numbers
             /\ s.pdf_names = pdf_names

\* C21: whenever an upload_pdfs request has completed successfully, the index
\* holds exactly the chunks of that request's files, with their vectors, and
\* nothing else, however the requests interleave at their awaits.
C21_IndexIsTheBatch ==
    (op = "upload_pdfs" /\ outcome = "ok")
       => LET chunks == ProcessPdfs(run[arg.request].files)
          IN /\ Len(texts) = Len(chunks)
             /\ \A i \in 1..Len(chunks) :
                   <<texts[i], page_numbers[i], pdf_names[i]>> = chunks[i]
             /\ Len(index) = Len(chunks)

====
